---- MODULE Spec2Model ----
(***************************************************************************)
(* Bulk batch reconciliation (products, materials, clients) and low-stock  *)
(* alert deduplication of the Nubestock backend.                           *)
(*                                                                         *)
(* Every handler is translated statement by statement into an operator     *)
(* that takes the request body, the tables it reads and a record `oc` of   *)
(* the outcomes of the store calls it awaits (each call resolves or        *)
(* throws; concurrent updates complete in the order `oc.order`).  The      *)
(* operator returns the HTTP response, the handler's `results` object, the *)
(* store calls issued and the tables after the request.  Array indexes     *)
(* are 0-based as in the source; every candidate object carries `pos`, its *)
(* 0-based position in the submitted array (the identity of the object).   *)
(***************************************************************************)
EXTENDS Integers, Sequences, FiniteSets, TLC

\* ------------------------------------------------------------------ bounds
MaxBatch == 3
\* longest body of an upload in the sequential alert runs
MaxUpload == 1

\* the largest batch the schemas accept: .max(1000) and clients.length > 1000 in
\* the source, scaled to the largest batch explored (the guard only compares
\* the length of the body with the limit)
MaxRecords == MaxBatch

Skus == {"A", "B"}
Stocks == {0, 5}
MinimumStocks == {1}
NoId == 0

\* ----------------------------------------------------------------- helpers
Range(s) == {s[i] : i \in 1..Len(s)}

MaxOf(S) == IF S = {} THEN 0 ELSE CHOOSE x \in S : \A y \in S : y <= x

\* Array.prototype.findIndex over the 0-based indexes in `hits`
FirstIndex(hits) == IF hits = {} THEN -1 ELSE CHOOSE i \in hits : \A j \in hits : i <= j

\* ascending sequence of a finite set of integers
RECURSIVE SortedSeq(_)
SortedSeq(S) ==
  IF S = {} THEN <<>>
  ELSE LET m == CHOOSE x \in S : \A y \in S : x <= y
       IN <<m>> \o SortedSeq(S \ {m})

Perms(n) == {s \in [1..n -> 1..n] : \A i, j \in 1..n : s[i] = s[j] => i = j}

\* the filter keeping the last occurrence of a key instead of the first
DuplicateIndexesKeepLast(keys) ==
  SortedSeq({i \in 0..(Len(keys) - 1) :
               \E j \in (i + 1)..(Len(keys) - 1) : keys[j + 1] = keys[i + 1]})

\* the filter rejecting every occurrence of a repeated key
DuplicateIndexesEvery(keys) ==
  SortedSeq({i \in 0..(Len(keys) - 1) :
               \E j \in 0..(Len(keys) - 1) : j # i /\ keys[j + 1] = keys[i + 1]})

\* forEach over the batch with a `seen` set: an index is a duplicate when its
\* key was added by an earlier element, so the first occurrence is kept
DuplicateIndexes(keys) ==
  SortedSeq({i \in 0..(Len(keys) - 1) : \E j \in 0..(i - 1) : keys[j + 1] = keys[i + 1]})

\* array.filter((_, index) => !duplicates.includes(index)), as 0-based positions
ValidPositions(n, duplicates) ==
  SortedSeq({i \in 0..(n - 1) : i \notin Range(duplicates)})

\* products.findIndex((p, idx) => p.key === key && !duplicates.includes(idx))
ActualIndex(keys, duplicates, key) ==
  FirstIndex({i \in 0..(Len(keys) - 1) : keys[i + 1] = key /\ i \notin Range(duplicates)})

\* validProducts.findIndex(vp => vp.sku === sku): an index into the FILTERED array
ValidIndex(keys, valid, key) ==
  FirstIndex({k \in 0..(Len(valid) - 1) : keys[valid[k + 1] + 1] = key})

\* the size test with the limit itself rejected
TooManyFromLimit(body) == Len(body) >= MaxRecords

\* Joi .max(1000) / clients.length > 1000
TooMany(body) == Len(body) > MaxRecords

\* ---------------------------------------------------------------- response
Errors(failed) ==
  [k \in 1..Len(failed) |->
     [index |-> failed[k].index + 1, pos |-> failed[k].pos,
      key |-> failed[k].key, error |-> failed[k].error]]

NoResults == [successful |-> <<>>, updated |-> <<>>, failed |-> <<>>, total |-> 0]

\* a response without a `data` member (validation failure, internal error)
PlainResponse(code) ==
  [status |-> code, hasData |-> FALSE, total |-> 0, created |-> 0, updated |-> 0,
   failed |-> 0, errors |-> <<>>]

DataResponse(code, total, created, updated, failed) ==
  [status |-> code, hasData |-> TRUE, total |-> total, created |-> created,
   updated |-> updated, failed |-> Len(failed), errors |-> Errors(failed)]

\* if (failed > 0 && totalProcessed > 0) 207; else if (failed === total) 400; else 201
BulkStatus(results) ==
  LET totalProcessed == Len(results.successful) + Len(results.updated)
  IN IF Len(results.failed) > 0 /\ totalProcessed > 0 THEN 207
     ELSE IF Len(results.failed) = results.total THEN 400
     ELSE 201

BulkResponse(results) ==
  DataResponse(BulkStatus(results), results.total, Len(results.successful),
               Len(results.updated), results.failed)

\* ------------------------------------------------------------ store calls
OkThrow == {"ok", "throw"}
\* .update(...).returning('*') resolves with a row, resolves with no row, or throws
UpdateOutcomes == {"ok", "none", "throw"}

Identity(n) == [i \in 1..n |-> i]

\* updates that stop at the first one to settle
SettledFirstOnly(order, n) == [t \in 1..(IF n > 0 THEN 1 ELSE 0) |-> order[t]]

\* Promise.all over one async function per update-set record, each with its own
\* try/catch: every update settles, in the order `order`
SettledUpdates(order, n) == [t \in 1..n |-> order[t]]

Call(op, pos, ok) == [op |-> op, pos |-> pos, ok |-> ok]

\* the existence lookup issued as one query per surviving record
LookupPerRecord(positions, ok) ==
  [k \in 1..Cardinality(positions) |-> Call("select", {SortedSeq(positions)[k]}, ok)]

\* select ... whereIn(key, keys of the surviving records): one query
BulkLookup(positions, ok) == <<Call("select", positions, ok)>>

\* The outcomes of the store calls of one request.  A call that the handler
\* never reaches has the default outcome, so that every record denotes one run.
Outcomes(nInsert, nUpdate, nLow, updateOutcomes) ==
  {oc \in [lookup : OkThrow, insert : OkThrow, update : [1..nUpdate -> updateOutcomes],
           order : Perms(nUpdate), alertLookup : OkThrow, alertInsert : OkThrow,
           commit : OkThrow] :
     /\ (nInsert = 0 => oc.insert = "ok")
     /\ (nLow = 0 => oc.alertLookup = "ok" /\ oc.alertInsert = "ok")
     /\ (oc.alertLookup = "throw" => oc.alertInsert = "ok" /\ oc.commit = "ok")}

AllOk(nUpdate) ==
  [lookup |-> "ok", insert |-> "ok", update |-> [i \in 1..nUpdate |-> "ok"],
   order |-> Identity(nUpdate), alertLookup |-> "ok", alertInsert |-> "ok",
   commit |-> "ok"]

LookupThrows == [AllOk(0) EXCEPT !.lookup = "throw"]

Out(response, results, calls, toInsert, toUpdate, table, alerts) ==
  [response |-> response, results |-> results, calls |-> calls,
   toInsert |-> toInsert, toUpdate |-> toUpdate, table |-> table, alerts |-> alerts]

\* ------------------------------------------------------------------ alerts
\* a row inserted without a status reads as 'active' while isactive
\* (alert.status || (alert.isactive ? 'active' : 'resolved'))
AlertRow(id, entity) ==
  [idalert |-> id, alert_type |-> "stock_low", entity_type |-> "product",
   entity_id |-> entity, isactive |-> TRUE, status |-> "active"]

\* the lookup without the isactive condition
ExistingAlertProductIdsAnyState(alerts, ids) ==
  {a.entity_id : a \in {x \in alerts : /\ x.entity_type = "product"
                                       /\ x.entity_id \in ids
                                       /\ x.alert_type = "stock_low"}}

\* select entity_id where entity_type = 'product' and entity_id in (ids)
\*   and alert_type = 'stock_low' and isactive
ExistingAlertProductIds(alerts, ids) ==
  {a.entity_id : a \in {x \in alerts : /\ x.entity_type = "product"
                                       /\ x.entity_id \in ids
                                       /\ x.alert_type = "stock_low"
                                       /\ x.isactive}}

\* the filter without the existence test
NeedsAlertAlways(id, existing) == TRUE

\* productsWithId.filter(p => !existingAlertProductIds.has(p.idfinal_product))
NeedsAlert(id, existing) == id \notin existing

\* the low-stock candidate list without the back-fill
NotBackFilledId(existingId, inserted, insertedId) == existingId

\* idfinal_product of a low-stock candidate at the alert step: the existing
\* identity, or the generated one written back by insertedProducts.forEach
BackFilledId(existingId, inserted, insertedId) ==
  IF existingId # NoId THEN existingId
  ELSE IF inserted THEN insertedId ELSE NoId

\* ---------------------------------------------------------------- products
ProductRecords ==
  [sku : Skus, current_stock : Stocks, minimum_stock : MinimumStocks, valid : {TRUE}]

\* a record that the Joi item schema rejects
InvalidProduct == [sku |-> "A", current_stock |-> 0, minimum_stock |-> 1, valid |-> FALSE]

ProductRow(id, p) ==
  [idfinal_product |-> id, sku |-> p.sku, current_stock |-> p.current_stock,
   minimum_stock |-> p.minimum_stock]

\* existingProductsMap.get(sku)
ExistingProductId(table, sku) ==
  IF \E r \in table : r.sku = sku
  THEN (CHOOSE r \in table : r.sku = sku).idfinal_product
  ELSE NoId

\* duplicate filter and partition of a schema-valid batch: positions are
\* 0-based positions in `products`; toInsert, toUpdate and lowStock hold
\* 1-based indexes into validProducts
PlanProducts(products, table) ==
  LET n == Len(products)
      keys == [i \in 1..n |-> products[i].sku]
      duplicateSkus == DuplicateIndexes(keys)
      validProducts == ValidPositions(n, duplicateSkus)
      all == Identity(Len(validProducts))
      sku(k) == keys[validProducts[k] + 1]
      p(k) == products[validProducts[k] + 1]
  IN [keys |-> keys, duplicateSkus |-> duplicateSkus, validProducts |-> validProducts,
      toUpdate |-> SelectSeq(all, LAMBDA k : ExistingProductId(table, sku(k)) # NoId),
      toInsert |-> SelectSeq(all, LAMBDA k : ExistingProductId(table, sku(k)) = NoId),
      lowStock |-> SelectSeq(all, LAMBDA k : p(k).current_stock <= p(k).minimum_stock)]

DuplicateFailures(keys, duplicates, message) ==
  [k \in 1..Len(duplicates) |->
     [index |-> duplicates[k], pos |-> duplicates[k], key |-> keys[duplicates[k] + 1],
      error |-> message]]

\* the db.transaction callback of handleBulkCreateProducts and its catch block
ProductsTransaction(products, plan, table, alerts, oc) ==
  LET keys == plan.keys
      duplicateSkus == plan.duplicateSkus
      validProducts == plan.validProducts
      toInsert == plan.toInsert
      toUpdate == plan.toUpdate
      pos(k) == validProducts[k]
      p(k) == products[pos(k) + 1]
      actualIndex(k) == ActualIndex(keys, duplicateSkus, p(k).sku)
      existingId(k) == ExistingProductId(table, p(k).sku)
      \* batched insert ... returning('*')
      insertRan == toInsert # <<>>
      insertThrew == insertRan /\ oc.insert = "throw"
      inserted == insertRan /\ oc.insert = "ok"
      firstId == MaxOf({r.idfinal_product : r \in table})
      insertedId(k) == firstId + (CHOOSE j \in 1..Len(toInsert) : toInsert[j] = k)
      successful ==
        IF inserted
        THEN [j \in 1..Len(toInsert) |->
                [index |-> ValidIndex(keys, validProducts, p(toInsert[j]).sku),
                 pos |-> pos(toInsert[j]), id |-> insertedId(toInsert[j])]]
        ELSE <<>>
      insertFailed ==
        IF insertThrew
        THEN [j \in 1..Len(toInsert) |->
                [index |-> ValidIndex(keys, validProducts, p(toInsert[j]).sku),
                 pos |-> pos(toInsert[j]), key |-> p(toInsert[j]).sku, error |-> "INSERT"]]
        ELSE <<>>
      \* one update per existing product, results pushed as the promises settle
      updateRan == ~insertThrew /\ toUpdate # <<>>
      settled == IF updateRan THEN SettledUpdates(oc.order, Len(toUpdate)) ELSE <<>>
      settledOk == SelectSeq(settled, LAMBDA u : oc.update[u] = "ok")
      settledBad == SelectSeq(settled, LAMBDA u : oc.update[u] # "ok")
      updated ==
        [t \in 1..Len(settledOk) |->
           [index |-> actualIndex(toUpdate[settledOk[t]]), pos |-> pos(toUpdate[settledOk[t]]),
            id |-> existingId(toUpdate[settledOk[t]])]]
      updateFailed ==
        [t \in 1..Len(settledBad) |->
           [index |-> actualIndex(toUpdate[settledBad[t]]), pos |-> pos(toUpdate[settledBad[t]]),
            key |-> p(toUpdate[settledBad[t]]).sku,
            error |-> IF oc.update[settledBad[t]] = "none" THEN "UPDATE_NOT_FOUND" ELSE "UPDATE"]]
      \* low-stock alerts: identities back-filled from the insert, then deduplicated
      idOf(k) == BackFilledId(existingId(k), inserted, insertedId(k))
      productsWithId == SelectSeq(plan.lowStock, LAMBDA k : idOf(k) # NoId)
      alertLookupRan == ~insertThrew /\ productsWithId # <<>>
      alertLookupThrew == alertLookupRan /\ oc.alertLookup = "throw"
      productIds == {idOf(productsWithId[j]) : j \in 1..Len(productsWithId)}
      existingAlertProductIds == ExistingAlertProductIds(alerts, productIds)
      alertsToCreate ==
        SelectSeq(productsWithId, LAMBDA k : NeedsAlert(idOf(k), existingAlertProductIds))
      alertInsertRan == alertLookupRan /\ ~alertLookupThrew /\ alertsToCreate # <<>>
      firstAlert == MaxOf({a.idalert : a \in alerts})
      newAlerts ==
        IF alertInsertRan /\ oc.alertInsert = "ok"
        THEN {AlertRow(firstAlert + j, idOf(alertsToCreate[j])) : j \in 1..Len(alertsToCreate)}
        ELSE {}
      commitRan == ~insertThrew /\ ~alertLookupThrew
      transactionThrew == insertThrew \/ alertLookupThrew \/ (commitRan /\ oc.commit = "throw")
      \* catch (transactionError): every valid product not found in successful/updated
      alreadyProcessed(k) ==
        \/ \E r \in Range(successful) : r.index = actualIndex(k)
        \/ \E r \in Range(updated) : r.index = actualIndex(k)
      unprocessed ==
        IF transactionThrew
        THEN SelectSeq(Identity(Len(validProducts)), LAMBDA k : ~alreadyProcessed(k))
        ELSE <<>>
      transactionFailed ==
        [t \in 1..Len(unprocessed) |->
           [index |-> actualIndex(unprocessed[t]), pos |-> pos(unprocessed[t]),
            key |-> p(unprocessed[t]).sku,
            error |-> IF insertThrew THEN "INSERT_TRANSACTION" ELSE "TRANSACTION"]]
      updatedIds == {updated[t].id : t \in 1..Len(updated)}
      written(r) ==
        IF r.idfinal_product \in updatedIds
        THEN ProductRow(r.idfinal_product,
                        p(CHOOSE k \in Range(toUpdate) : existingId(k) = r.idfinal_product))
        ELSE r
      insertedRows ==
        IF inserted
        THEN {ProductRow(insertedId(toInsert[j]), p(toInsert[j])) : j \in 1..Len(toInsert)}
        ELSE {}
      calls ==
        (IF insertRan THEN <<Call("insert", {pos(toInsert[j]) : j \in 1..Len(toInsert)}, inserted)>>
         ELSE <<>>)
        \o (IF updateRan
            THEN [u \in 1..Len(toUpdate) |-> Call("update", {pos(toUpdate[u])}, oc.update[u] = "ok")]
            ELSE <<>>)
        \o (IF alertLookupRan THEN <<Call("alertSelect", productIds, ~alertLookupThrew)>> ELSE <<>>)
        \o (IF alertInsertRan
            THEN <<Call("alertInsert", {idOf(alertsToCreate[j]) : j \in 1..Len(alertsToCreate)},
                        oc.alertInsert = "ok")>>
            ELSE <<>>)
        \o (IF commitRan THEN <<Call("commit", {}, oc.commit = "ok")>> ELSE <<>>)
  IN [successful |-> successful, updated |-> updated,
      failed |-> insertFailed \o updateFailed \o transactionFailed,
      calls |-> calls,
      table |-> IF transactionThrew THEN table ELSE {written(r) : r \in table} \cup insertedRows,
      alerts |-> IF transactionThrew THEN alerts ELSE alerts \cup newAlerts]

\* the handler after schema validation: `plan` is the duplicate filter and the
\* partition, `trx` the transaction, evaluated only when the lookup resolved
ProductsResponse(products, plan, trx, table, alerts, oc) ==
    LET validProducts == plan.validProducts
        pos(k) == validProducts[k]
        duplicateFailed ==
          DuplicateFailures(plan.keys, plan.duplicateSkus, "DUPLICATE")
        lookup == BulkLookup(Range(validProducts), oc.lookup = "ok")
    IN IF Len(validProducts) = 0
       THEN Out(DataResponse(400, Len(products), 0, 0, duplicateFailed),
                [NoResults EXCEPT !.failed = duplicateFailed, !.total = Len(products)],
                <<>>, {}, {}, table, alerts)
       ELSE IF oc.lookup = "throw"
       THEN LET failed ==
                  duplicateFailed \o
                  [k \in 1..Len(validProducts) |->
                     [index |-> ActualIndex(plan.keys, plan.duplicateSkus, products[pos(k) + 1].sku),
                      pos |-> pos(k), key |-> products[pos(k) + 1].sku, error |-> "SELECT"]]
            IN Out(DataResponse(500, Len(products), 0, 0, failed),
                   [NoResults EXCEPT !.failed = failed, !.total = Len(products)],
                   lookup, {}, {}, table, alerts)
       ELSE LET results == [successful |-> trx.successful, updated |-> trx.updated,
                            failed |-> duplicateFailed \o trx.failed,
                            total |-> Len(products)]
            IN Out(BulkResponse(results), results, lookup \o trx.calls,
                   {pos(plan.toInsert[j]) : j \in 1..Len(plan.toInsert)},
                   {pos(plan.toUpdate[j]) : j \in 1..Len(plan.toUpdate)},
                   trx.table, trx.alerts)

ProductsPlanned(products, plan, table, alerts, oc) ==
  ProductsResponse(products, plan, ProductsTransaction(products, plan, table, alerts, oc),
                   table, alerts, oc)

handleBulkCreateProducts(body, table, alerts, oc) ==
  IF Len(body) < 1 \/ TooMany(body) \/ \E i \in 1..Len(body) : ~body[i].valid
  THEN Out(PlainResponse(400), NoResults, <<>>, {}, {}, table, alerts)
  ELSE ProductsPlanned(body, PlanProducts(body, table), table, alerts, oc)

\* the outcomes that one products request can meet
ProductOutcomes(body, table) ==
  IF Len(body) < 1 \/ TooMany(body) \/ \E i \in 1..Len(body) : ~body[i].valid
  THEN {AllOk(0)}
  ELSE LET plan == PlanProducts(body, table)
       IN {LookupThrows} \cup
          {oc \in Outcomes(Len(plan.toInsert), Len(plan.toUpdate), Len(plan.lowStock),
                           UpdateOutcomes) :
             /\ oc.lookup = "ok"
             /\ (oc.insert = "throw" => oc = [AllOk(Len(plan.toUpdate)) EXCEPT !.insert = "throw"])}

\* --------------------------------------------------------------- materials
Codes == {"M1", "M2"}

MaterialRecords == [material_code : Codes, valid : {TRUE}]

InvalidMaterial == [material_code |-> "M1", valid |-> FALSE]

MaterialRow(id, m) == [idmaterial |-> id, material_code |-> m.material_code]

\* existingMaterialMap.get(material_code)
ExistingMaterialId(table, code) ==
  IF \E r \in table : r.material_code = code
  THEN (CHOOSE r \in table : r.material_code = code).idmaterial
  ELSE NoId

PlanMaterials(materials, table) ==
  LET n == Len(materials)
      keys == [i \in 1..n |-> materials[i].material_code]
      duplicateCodes == DuplicateIndexes(keys)
      validMaterials == ValidPositions(n, duplicateCodes)
      all == Identity(Len(validMaterials))
      code(k) == keys[validMaterials[k] + 1]
  IN [keys |-> keys, duplicateCodes |-> duplicateCodes, validMaterials |-> validMaterials,
      toUpdate |-> SelectSeq(all, LAMBDA k : ExistingMaterialId(table, code(k)) # NoId),
      toInsert |-> SelectSeq(all, LAMBDA k : ExistingMaterialId(table, code(k)) = NoId)]

\* status: failed === 0 ? 201 : 207
MaterialsStatus(results) == IF Len(results.failed) = 0 THEN 201 ELSE 207

\* the handler after schema validation: the transaction (lookup included),
\* the outer catch and the response
MaterialsTransaction(materials, plan, table, oc) ==
    LET keys == plan.keys
        validMaterials == plan.validMaterials
        toInsert == plan.toInsert
        toUpdate == plan.toUpdate
        pos(k) == validMaterials[k]
        m(k) == materials[pos(k) + 1]
        \* materials.findIndex(m => m.material_code === code &&
        \*                          !duplicateCodes.includes(materials.indexOf(m)))
        originalIndex(k) == ActualIndex(keys, plan.duplicateCodes, m(k).material_code)
        existingId(k) == ExistingMaterialId(table, m(k).material_code)
        duplicateFailed == DuplicateFailures(keys, plan.duplicateCodes, "DUPLICATE")
        lookupThrew == oc.lookup = "throw"
        insertRan == ~lookupThrew /\ toInsert # <<>>
        inserted == insertRan /\ oc.insert = "ok"
        firstId == MaxOf({r.idmaterial : r \in table})
        successful ==
          IF inserted
          THEN [j \in 1..Len(toInsert) |->
                  [index |-> originalIndex(toInsert[j]), pos |-> pos(toInsert[j]),
                   id |-> firstId + j]]
          ELSE <<>>
        createFailed ==
          IF insertRan /\ ~inserted
          THEN [j \in 1..Len(toInsert) |->
                  [index |-> originalIndex(toInsert[j]), pos |-> pos(toInsert[j]),
                   key |-> m(toInsert[j]).material_code, error |-> "CREATE"]]
          ELSE <<>>
        updateRan == ~lookupThrew /\ toUpdate # <<>>
        settled == IF updateRan THEN SettledUpdates(oc.order, Len(toUpdate)) ELSE <<>>
        settledOk == SelectSeq(settled, LAMBDA u : oc.update[u] = "ok")
        settledBad == SelectSeq(settled, LAMBDA u : oc.update[u] # "ok")
        updated ==
          [t \in 1..Len(settledOk) |->
             [index |-> originalIndex(toUpdate[settledOk[t]]),
              pos |-> pos(toUpdate[settledOk[t]]), id |-> existingId(toUpdate[settledOk[t]])]]
        updateFailed ==
          [t \in 1..Len(settledBad) |->
             [index |-> originalIndex(toUpdate[settledBad[t]]),
              pos |-> pos(toUpdate[settledBad[t]]),
              key |-> m(toUpdate[settledBad[t]]).material_code,
              error |-> IF oc.update[settledBad[t]] = "none" THEN "UPDATE_NOT_FOUND"
                        ELSE "UPDATE"]]
        commitRan == ~lookupThrew
        transactionThrew == lookupThrew \/ oc.commit = "throw"
        results == [successful |-> successful, updated |-> updated,
                    failed |-> duplicateFailed \o createFailed \o updateFailed,
                    total |-> Len(materials)]
        insertedRows ==
          IF inserted
          THEN {MaterialRow(firstId + j, m(toInsert[j])) : j \in 1..Len(toInsert)}
          ELSE {}
        calls ==
          BulkLookup(Range(validMaterials), ~lookupThrew)
          \o (IF insertRan
              THEN <<Call("insert", {pos(toInsert[j]) : j \in 1..Len(toInsert)}, inserted)>>
              ELSE <<>>)
          \o (IF updateRan
              THEN [u \in 1..Len(toUpdate) |->
                      Call("update", {pos(toUpdate[u])}, oc.update[u] = "ok")]
              ELSE <<>>)
          \o (IF commitRan THEN <<Call("commit", {}, oc.commit = "ok")>> ELSE <<>>)
    IN IF Len(validMaterials) = 0
       THEN Out(DataResponse(400, Len(materials), 0, 0, duplicateFailed),
                [NoResults EXCEPT !.failed = duplicateFailed, !.total = Len(materials)],
                <<>>, {}, {}, table, {})
       ELSE IF transactionThrew
       THEN \* the rejection reaches the handler's outer catch
            Out(PlainResponse(500), results, calls,
                IF lookupThrew THEN {} ELSE {pos(toInsert[j]) : j \in 1..Len(toInsert)},
                IF lookupThrew THEN {} ELSE {pos(toUpdate[j]) : j \in 1..Len(toUpdate)},
                table, {})
       ELSE Out(DataResponse(MaterialsStatus(results), results.total, Len(successful),
                             Len(updated), results.failed),
                results, calls,
                {pos(toInsert[j]) : j \in 1..Len(toInsert)},
                {pos(toUpdate[j]) : j \in 1..Len(toUpdate)},
                table \cup insertedRows, {})

handleBulkCreateMaterials(body, table, oc) ==
  IF Len(body) < 1 \/ TooMany(body) \/ \E i \in 1..Len(body) : ~body[i].valid
  THEN Out(PlainResponse(400), NoResults, <<>>, {}, {}, table, {})
  ELSE MaterialsTransaction(body, PlanMaterials(body, table), table, oc)

MaterialOutcomes(body, table) ==
  IF Len(body) < 1 \/ TooMany(body) \/ \E i \in 1..Len(body) : ~body[i].valid
  THEN {AllOk(0)}
  ELSE LET plan == PlanMaterials(body, table)
       IN {LookupThrows} \cup
          {oc \in Outcomes(Len(plan.toInsert), Len(plan.toUpdate), 0, UpdateOutcomes) :
             oc.lookup = "ok"}

\* ----------------------------------------------------------------- clients
Rucs == {"R1", "R2"}
Emails == {"e1", "e2"}

ClientRecords == [ruc_cedula : Rucs, email : Emails, valid : {TRUE}]

\* a record that clientSchema rejects
InvalidClient == [ruc_cedula |-> "R1", email |-> "e1", valid |-> FALSE]

ClientRow(id, c) == [idclient |-> id, ruc_cedula |-> c.ruc_cedula, email |-> c.email]

\* validation loop: a record is a duplicate when an earlier VALID record added
\* its ruc_cedula to rucSet
DuplicateRucs(clients) ==
  SortedSeq({i \in 0..(Len(clients) - 1) :
               /\ clients[i + 1].valid
               /\ \E j \in 0..(i - 1) :
                    clients[j + 1].valid /\ clients[j + 1].ruc_cedula = clients[i + 1].ruc_cedula})

\* validClients, as the originalIndex of each
ValidClients(clients) ==
  SortedSeq({i \in 0..(Len(clients) - 1) :
               clients[i + 1].valid /\ i \notin Range(DuplicateRucs(clients))})

\* select idclient, ruc_cedula, email where ruc_cedula in (rucs) or email in (emails)
ExistingClients(table, rucs, emails) ==
  {r \in table : r.ruc_cedula \in rucs \/ r.email \in emails}

\* existingRucMap.get(ruc) first, then existingEmailMap.get(email)
ExistingClientId(existing, c) ==
  IF \E r \in existing : r.ruc_cedula = c.ruc_cedula
  THEN (CHOOSE r \in existing : r.ruc_cedula = c.ruc_cedula).idclient
  ELSE IF \E r \in existing : r.email = c.email
  THEN MaxOf({r.idclient : r \in {x \in existing : x.email = c.email}})
  ELSE NoId

PlanClients(clients, table) ==
  LET validClients == ValidClients(clients)
      all == Identity(Len(validClients))
      c(k) == clients[validClients[k] + 1]
      existing == ExistingClients(table, {c(k).ruc_cedula : k \in Range(all)},
                                  {c(k).email : k \in Range(all)})
  IN [validClients |-> validClients,
      toUpdate |-> SelectSeq(all, LAMBDA k : ExistingClientId(existing, c(k)) # NoId),
      toInsert |-> SelectSeq(all, LAMBDA k : ExistingClientId(existing, c(k)) = NoId),
      existing |-> existing]

\* concurrent updates of one row: the update that settles last is the one kept
RECURSIVE ApplyClientUpdates(_, _, _, _, _)
ApplyClientUpdates(table, settledOk, toUpdate, idOf, rec) ==
  IF settledOk = <<>> THEN table
  ELSE LET k == toUpdate[Head(settledOk)]
       IN ApplyClientUpdates(
            {IF r.idclient = idOf[k] THEN ClientRow(r.idclient, rec[k]) ELSE r : r \in table},
            Tail(settledOk), toUpdate, idOf, rec)

\* the handler after schema validation of the body: per-record validation,
\* the transaction, its catch, the final loop and the response
ClientsTransaction(clients, plan, table, oc) ==
    LET n == Len(clients)
        validClients == plan.validClients
        toInsert == plan.toInsert
        toUpdate == plan.toUpdate
        pos(k) == validClients[k]
        c(k) == clients[pos(k) + 1]
        existingId(k) == ExistingClientId(plan.existing, c(k))
        \* final loop over the submitted array: validation errors and duplicates
        rejected == SortedSeq({i \in 0..(n - 1) : i \notin Range(validClients)})
        validationFailed ==
          [t \in 1..Len(rejected) |->
             [index |-> rejected[t], pos |-> rejected[t],
              key |-> clients[rejected[t] + 1].ruc_cedula,
              error |-> IF clients[rejected[t] + 1].valid THEN "DUPLICATE" ELSE "VALIDATION"]]
        lookupThrew == oc.lookup = "throw"
        selectFailed ==
          IF lookupThrew
          THEN [k \in 1..Len(validClients) |->
                  [index |-> pos(k), pos |-> pos(k), key |-> c(k).ruc_cedula, error |-> "SELECT"]]
          ELSE <<>>
        insertRan == ~lookupThrew /\ toInsert # <<>>
        inserted == insertRan /\ oc.insert = "ok"
        firstId == MaxOf({r.idclient : r \in table})
        successful ==
          IF inserted
          THEN [j \in 1..Len(toInsert) |->
                  [index |-> pos(toInsert[j]), pos |-> pos(toInsert[j]), id |-> firstId + j]]
          ELSE <<>>
        insertFailed ==
          IF insertRan /\ ~inserted
          THEN [j \in 1..Len(toInsert) |->
                  [index |-> pos(toInsert[j]), pos |-> pos(toInsert[j]),
                   key |-> c(toInsert[j]).ruc_cedula, error |-> "INSERT"]]
          ELSE <<>>
        \* await trx(...).update(data): the row count is not inspected
        updateRan == ~lookupThrew /\ toUpdate # <<>>
        settled == IF updateRan THEN SettledUpdates(oc.order, Len(toUpdate)) ELSE <<>>
        settledDone == SelectSeq(settled, LAMBDA u : oc.update[u] # "throw")
        settledOk == SelectSeq(settled, LAMBDA u : oc.update[u] = "ok")
        settledBad == SelectSeq(settled, LAMBDA u : oc.update[u] = "throw")
        updated ==
          [t \in 1..Len(settledDone) |->
             [index |-> pos(toUpdate[settledDone[t]]), pos |-> pos(toUpdate[settledDone[t]]),
              id |-> existingId(toUpdate[settledDone[t]])]]
        updateFailed ==
          [t \in 1..Len(settledBad) |->
             [index |-> pos(toUpdate[settledBad[t]]), pos |-> pos(toUpdate[settledBad[t]]),
              key |-> c(toUpdate[settledBad[t]]).ruc_cedula, error |-> "UPDATE"]]
        transactionThrew == oc.commit = "throw"
        alreadyProcessed(k) ==
          \/ \E r \in Range(successful) : r.index = pos(k)
          \/ \E r \in Range(updated) : r.index = pos(k)
        unprocessed ==
          IF transactionThrew
          THEN SelectSeq(Identity(Len(validClients)), LAMBDA k : ~alreadyProcessed(k))
          ELSE <<>>
        transactionFailed ==
          [t \in 1..Len(unprocessed) |->
             [index |-> pos(unprocessed[t]), pos |-> pos(unprocessed[t]),
              key |-> c(unprocessed[t]).ruc_cedula, error |-> "TRANSACTION"]]
        results ==
          [successful |-> successful, updated |-> updated,
           failed |-> selectFailed \o insertFailed \o updateFailed \o transactionFailed
                      \o validationFailed,
           total |-> n]
        insertedRows ==
          IF inserted
          THEN {ClientRow(firstId + j, c(toInsert[j])) : j \in 1..Len(toInsert)}
          ELSE {}
        idOf == [k \in 1..Len(validClients) |-> existingId(k)]
        rec == [k \in 1..Len(validClients) |-> c(k)]
        calls ==
          BulkLookup(Range(validClients), ~lookupThrew)
          \o (IF insertRan
              THEN <<Call("insert", {pos(toInsert[j]) : j \in 1..Len(toInsert)}, inserted)>>
              ELSE <<>>)
          \o (IF updateRan
              THEN [u \in 1..Len(toUpdate) |->
                      Call("update", {pos(toUpdate[u])}, oc.update[u] = "ok")]
              ELSE <<>>)
          \o <<Call("commit", {}, oc.commit = "ok")>>
    IN IF Len(validClients) = 0
       THEN Out([DataResponse(400, n, 0, 0, validationFailed) EXCEPT !.failed = n],
                [NoResults EXCEPT !.failed = validationFailed, !.total = n],
                <<>>, {}, {}, table, {})
       ELSE Out(BulkResponse(results), results, calls,
                IF lookupThrew THEN {} ELSE {pos(toInsert[j]) : j \in 1..Len(toInsert)},
                IF lookupThrew THEN {} ELSE {pos(toUpdate[j]) : j \in 1..Len(toUpdate)},
                IF transactionThrew THEN table
                ELSE ApplyClientUpdates(table, settledOk, toUpdate, idOf, rec) \cup insertedRows,
                {})

handleBulkCreateClients(body, table, oc) ==
  IF Len(body) < 1 \/ TooMany(body)
  THEN Out(PlainResponse(400), NoResults, <<>>, {}, {}, table, {})
  ELSE ClientsTransaction(body, PlanClients(body, table), table, oc)

ClientOutcomes(body, table) ==
  IF Len(body) < 1 \/ TooMany(body) \/ ValidClients(body) = <<>>
  THEN {AllOk(0)}
  ELSE LET plan == PlanClients(body, table)
       IN {oc \in Outcomes(0, 0, 0, UpdateOutcomes) : oc.lookup = "throw"} \cup
          {oc \in Outcomes(Len(plan.toInsert), Len(plan.toUpdate), 0, UpdateOutcomes) :
             oc.lookup = "ok"}

\* ------------------------------------------------------------------- state
VARIABLES
  productTable,   \* nubestock.tb_mae_final_product
  alertTable,     \* nubestock.tb_mae_alert
  materialTable,  \* nubestock.tb_mae_material
  clientTable,    \* nubestock.tb_mae_client
  request,        \* the request being answered: endpoint, body, store outcomes
  response,       \* context.res
  results,        \* the handler's results object
  calls,          \* the store calls the handler issued, in order
  routed,         \* the positions planned for insert and for update
  before,         \* the tables when the request arrived
  history,        \* the requests answered earlier, oldest first
  invocations,    \* the concurrent handler invocations in flight, one record each
  ledger          \* nubestock.tb_ope_transaction

vars == <<productTable, alertTable, materialTable, clientTable, request, response,
          results, calls, routed, before, history, invocations, ledger>>

NoRequest == [endpoint |-> "none", body |-> <<>>, oc |-> AllOk(0)]

Tables == [products |-> productTable, alerts |-> alertTable,
           materials |-> materialTable, clients |-> clientTable]

BodiesUpTo(records, max) == UNION {[1..n -> records] : n \in 0..max}

\* the bodies a caller can post, the shortest oversized ones included
Bodies(records, invalid) == BodiesUpTo(records \cup {invalid}, MaxRecords + 1)

StoredA == [idfinal_product |-> 1, sku |-> "A", current_stock |-> 5, minimum_stock |-> 1]
StoredB == [idfinal_product |-> 2, sku |-> "B", current_stock |-> 5, minimum_stock |-> 1]
ResolvedAlert == [AlertRow(1, 1) EXCEPT !.isactive = FALSE, !.status = "resolved"]

\* tables the system can hold: natural keys are unique, a product has at most
\* one active stock_low alert
InitialTables ==
  LET none == [products |-> {}, alerts |-> {}, materials |-> {}, clients |-> {}]
  IN {none,
      [none EXCEPT !.products = {StoredA}],
      [none EXCEPT !.products = {StoredA}, !.alerts = {AlertRow(1, 1)}],
      [none EXCEPT !.products = {StoredA, StoredB}],
      [none EXCEPT !.products = {StoredA, StoredB}, !.alerts = {AlertRow(1, 1)}],
      [none EXCEPT !.products = {StoredA, StoredB}, !.alerts = {ResolvedAlert}],
      [none EXCEPT !.materials = {[idmaterial |-> 1, material_code |-> "M1"]}],
      [none EXCEPT !.materials = {[idmaterial |-> 1, material_code |-> "M1"],
                                  [idmaterial |-> 2, material_code |-> "M2"]}],
      [none EXCEPT !.clients = {[idclient |-> 1, ruc_cedula |-> "R1", email |-> "e1"]}],
      [none EXCEPT !.clients = {[idclient |-> 1, ruc_cedula |-> "R1", email |-> "e1"],
                                [idclient |-> 2, ruc_cedula |-> "R2", email |-> "e2"]}]}

Init ==
  /\ \E t \in InitialTables :
       /\ productTable = t.products
       /\ alertTable = t.alerts
       /\ materialTable = t.materials
       /\ clientTable = t.clients
       /\ before = t
  /\ request = NoRequest
  /\ response = PlainResponse(0)
  /\ results = NoResults
  /\ calls = <<>>
  /\ routed = [toInsert |-> {}, toUpdate |-> {}]
  /\ history = <<>>
  /\ invocations = <<>>
  /\ ledger = {}

Answer(endpoint, body, oc, out) ==
  /\ request' = [endpoint |-> endpoint, body |-> body, oc |-> oc]
  /\ response' = out.response
  /\ results' = out.results
  /\ calls' = out.calls
  /\ routed' = [toInsert |-> out.toInsert, toUpdate |-> out.toUpdate]
  /\ before' = Tables

\* POST products/bulk
ProductsBulk(body, oc) ==
  LET out == handleBulkCreateProducts(body, productTable, alertTable, oc)
  IN /\ Answer("products", body, oc, out)
     /\ productTable' = out.table
     /\ alertTable' = out.alerts
     /\ UNCHANGED <<materialTable, clientTable>>

\* POST materials/bulk
MaterialsBulk(body, oc) ==
  LET out == handleBulkCreateMaterials(body, materialTable, oc)
  IN /\ Answer("materials", body, oc, out)
     /\ materialTable' = out.table
     /\ UNCHANGED <<productTable, alertTable, clientTable>>

\* POST clients/bulk
ClientsBulk(body, oc) ==
  LET out == handleBulkCreateClients(body, clientTable, oc)
  IN /\ Answer("clients", body, oc, out)
     /\ clientTable' = out.table
     /\ UNCHANGED <<productTable, alertTable, materialTable>>

\* one bulk request, under every outcome of its store calls
BulkCreateProducts ==
  /\ UNCHANGED <<invocations, ledger>>
  /\ request = NoRequest
  /\ \E body \in Bodies(ProductRecords, InvalidProduct) :
       \E oc \in ProductOutcomes(body, productTable) : ProductsBulk(body, oc)
  /\ UNCHANGED history

BulkCreateMaterials ==
  /\ UNCHANGED <<invocations, ledger>>
  /\ request = NoRequest
  /\ \E body \in Bodies(MaterialRecords, InvalidMaterial) :
       \E oc \in MaterialOutcomes(body, materialTable) : MaterialsBulk(body, oc)
  /\ UNCHANGED history

BulkCreateClients ==
  /\ UNCHANGED <<invocations, ledger>>
  /\ request = NoRequest
  /\ \E body \in Bodies(ClientRecords, InvalidClient) :
       \E oc \in ClientOutcomes(body, clientTable) : ClientsBulk(body, oc)
  /\ UNCHANGED history

Next == BulkCreateProducts \/ BulkCreateMaterials \/ BulkCreateClients

Spec == Init /\ [][Next]_vars

\* ------------------------------------------------------------------ claims
Answered == request.endpoint # "none"

\* the schema accepted the body: the request reached the duplicate filter
Accepted ==
  /\ Answered
  /\ Len(request.body) >= 1
  /\ ~TooMany(request.body)
  /\ (request.endpoint \in {"products", "materials"} =>
        \A i \in 1..Len(request.body) : request.body[i].valid)

KeyOf(rec) ==
  IF request.endpoint = "products" THEN rec.sku
  ELSE IF request.endpoint = "materials" THEN rec.material_code
  ELSE rec.ruc_cedula

SelectThrew == \E i \in 1..Len(calls) : calls[i].op = "select" /\ ~calls[i].ok
SelectResolved == \E i \in 1..Len(calls) : calls[i].op = "select" /\ calls[i].ok
InsertThrew == \E i \in 1..Len(calls) : calls[i].op = "insert" /\ ~calls[i].ok
CommitThrew == \E i \in 1..Len(calls) : calls[i].op = "commit" /\ ~calls[i].ok
AlertStepThrew ==
  \E i \in 1..Len(calls) : calls[i].op \in {"alertSelect", "alertInsert"} /\ ~calls[i].ok

\* C1: whenever the response carries batch counts,
\* created + updated + failed = total = number of submitted records.
OutcomeCompleteness ==
  (Answered /\ response.hasData) =>
     /\ response.created + response.updated + response.failed = response.total
     /\ response.total = Len(request.body)

\* C2: for products and clients, a response carrying a BatchResult has status 201
\* exactly when failed = 0, 400 exactly when failed = total, 207 exactly when
\* 0 < failed < total.
StatusCodeLaw ==
  (Answered /\ response.hasData /\ request.endpoint \in {"products", "clients"}) =>
     /\ (response.status = 201 <=> response.failed = 0)
     /\ (response.status = 400 <=> response.failed = response.total)
     /\ (response.status = 207 <=> (0 < response.failed /\ response.failed < response.total))

\* C3: the materials endpoint answers 400 when every record failed, and 207 only
\* when at least one record succeeded and at least one failed.
MaterialsStatusLaw ==
  (Answered /\ response.hasData /\ request.endpoint = "materials") =>
     /\ (response.failed = response.total => response.status = 400)
     /\ (response.status = 207 =>
           response.created + response.updated > 0 /\ response.failed > 0)

\* the valid records at positions i < j share their natural key and i is the
\* first valid record with that key
DuplicatePair(i, j) ==
  /\ i < j
  /\ request.body[i + 1].valid /\ request.body[j + 1].valid
  /\ KeyOf(request.body[i + 1]) = KeyOf(request.body[j + 1])
  /\ \A h \in 0..(i - 1) :
       ~(request.body[h + 1].valid /\ KeyOf(request.body[h + 1]) = KeyOf(request.body[i + 1]))

MarkedDuplicate(list, j) ==
  \E k \in 1..Len(list) : list[k].pos = j /\ list[k].error = "DUPLICATE"

SentToStore(j) ==
  \E k \in 1..Len(calls) : calls[k].op \in {"select", "insert", "update"} /\ j \in calls[k].pos

\* C4: of two valid records with the same natural key, the later one is marked
\* failed as a duplicate (and reported so whenever the response lists errors) and
\* is never sent to the store; the first one is never marked duplicate and, once
\* the existence lookup has resolved, is routed to the insert or the update set.
DuplicateFirstWins ==
  Accepted =>
    \A i, j \in 0..(Len(request.body) - 1) :
      DuplicatePair(i, j) =>
        /\ MarkedDuplicate(results.failed, j)
        /\ (response.hasData => MarkedDuplicate(response.errors, j))
        /\ j \notin routed.toInsert \cup routed.toUpdate
        /\ ~SentToStore(j)
        /\ ~MarkedDuplicate(results.failed, i)
        /\ (SelectResolved =>
              /\ i \in routed.toInsert \cup routed.toUpdate
              /\ SentToStore(i))

\* C4 witness: a batch with a repeated key was reconciled after a successful lookup.
DuplicateFirstWinsWitness ==
  /\ Accepted
  /\ SelectResolved
  /\ \E i, j \in 0..(Len(request.body) - 1) : DuplicatePair(i, j) /\ i \in routed.toUpdate

\* C5: every entry of the errors list carries the 1-based position of its record
\* in the submitted array.
IndexFidelity ==
  Answered => \A k \in 1..Len(response.errors) :
                 response.errors[k].index = response.errors[k].pos + 1

\* C8: when the existence lookup throws, the response is a BatchResult with
\* failed = total, created = updated = 0 and status 400, and the store is untouched.
LookupFailureIsAllFailed ==
  (Answered /\ SelectThrew) =>
     /\ response.hasData
     /\ response.failed = response.total
     /\ response.created = 0 /\ response.updated = 0
     /\ response.status = 400
     /\ Tables = before

\* C9: the errors list is ordered by ascending original index.
FailureListOrdered ==
  Answered => \A a, b \in 1..Len(response.errors) :
                 a < b => response.errors[a].index <= response.errors[b].index

\* C10: in the products upload a failing alert lookup or alert insert leaves the
\* response (status, counts, per-record outcomes) as it is when the alert step succeeds.
AlertFailureIsHarmless ==
  (Answered /\ request.endpoint = "products" /\ AlertStepThrew) =>
     LET healthy == handleBulkCreateProducts(
                      request.body, before.products, before.alerts,
                      [request.oc EXCEPT !.alertLookup = "ok", !.alertInsert = "ok"])
     IN /\ response = healthy.response
        /\ results = healthy.results

\* ---------------------------------------------------------- resubmission
\* the runs in which every store call resolves (updates settle in any order)
Successful(outcomes) ==
  {oc \in outcomes :
     /\ oc.lookup = "ok" /\ oc.insert = "ok" /\ oc.commit = "ok"
     /\ oc.alertLookup = "ok" /\ oc.alertInsert = "ok"
     /\ \A u \in 1..Len(oc.update) : oc.update[u] = "ok"}

SubmitProducts ==
  /\ UNCHANGED <<invocations, ledger>>
  /\ request = NoRequest
  /\ \E body \in Bodies(ProductRecords, InvalidProduct) :
       \E oc \in Successful(ProductOutcomes(body, productTable)) : ProductsBulk(body, oc)
  /\ UNCHANGED history

SubmitMaterials ==
  /\ UNCHANGED <<invocations, ledger>>
  /\ request = NoRequest
  /\ \E body \in Bodies(MaterialRecords, InvalidMaterial) :
       \E oc \in Successful(MaterialOutcomes(body, materialTable)) : MaterialsBulk(body, oc)
  /\ UNCHANGED history

SubmitClients ==
  /\ UNCHANGED <<invocations, ledger>>
  /\ request = NoRequest
  /\ \E body \in Bodies(ClientRecords, InvalidClient) :
       \E oc \in Successful(ClientOutcomes(body, clientTable)) : ClientsBulk(body, oc)
  /\ UNCHANGED history

\* the same body posted again to the same endpoint, nothing written in between
ResubmitProducts ==
  /\ UNCHANGED <<invocations, ledger>>
  /\ request.endpoint = "products" /\ history = <<>>
  /\ \E oc \in Successful(ProductOutcomes(request.body, productTable)) :
       ProductsBulk(request.body, oc)
  /\ history' = <<[request |-> request, response |-> response]>>

ResubmitMaterials ==
  /\ UNCHANGED <<invocations, ledger>>
  /\ request.endpoint = "materials" /\ history = <<>>
  /\ \E oc \in Successful(MaterialOutcomes(request.body, materialTable)) :
       MaterialsBulk(request.body, oc)
  /\ history' = <<[request |-> request, response |-> response]>>

ResubmitClients ==
  /\ UNCHANGED <<invocations, ledger>>
  /\ request.endpoint = "clients" /\ history = <<>>
  /\ \E oc \in Successful(ClientOutcomes(request.body, clientTable)) :
       ClientsBulk(request.body, oc)
  /\ history' = <<[request |-> request, response |-> response]>>

NextResubmit ==
  \/ SubmitProducts \/ SubmitMaterials \/ SubmitClients
  \/ ResubmitProducts \/ ResubmitMaterials \/ ResubmitClients

SpecResubmit == Init /\ [][NextResubmit]_vars

\* the records of the body that survive validation and the duplicate filter
Surviving ==
  IF ~Accepted THEN {}
  ELSE {i \in 0..(Len(request.body) - 1) :
          /\ request.body[i + 1].valid
          /\ \A h \in 0..(i - 1) :
               ~(request.body[h + 1].valid
                 /\ KeyOf(request.body[h + 1]) = KeyOf(request.body[i + 1]))}

EntityRows(t) ==
  IF request.endpoint = "products" THEN t.products
  ELSE IF request.endpoint = "materials" THEN t.materials
  ELSE t.clients

\* C6: a batch posted a second time, every store call succeeding both times,
\* yields created = 0 and updated = number of surviving records and adds no row.
IdempotentResubmission ==
  history # <<>> =>
     /\ response.created = 0
     /\ response.updated = Cardinality(Surviving)
     /\ Cardinality(EntityRows(Tables)) = Cardinality(EntityRows(before))

\* ------------------------------------------------- sequential alert checks
\* generateStockAlert(product): look for an active stock_low alert of the
\* product, create one when there is none; every error is caught and logged
generateStockAlert(product, alerts, oc) ==
  LET existingAlert ==
        \E a \in alerts : /\ a.entity_type = "product"
                          /\ a.entity_id = product.idfinal_product
                          /\ a.alert_type = "stock_low"
                          /\ a.isactive
      created == oc.lookup = "ok" /\ ~existingAlert /\ oc.insert = "ok"
  IN [alerts |-> IF created
                 THEN alerts \cup {AlertRow(MaxOf({a.idalert : a \in alerts}) + 1,
                                            product.idfinal_product)}
                 ELSE alerts,
      calls |-> <<Call("alertSelect", {product.idfinal_product}, oc.lookup = "ok")>>
                \o (IF oc.lookup = "ok" /\ ~existingAlert
                    THEN <<Call("alertInsert", {product.idfinal_product}, oc.insert = "ok")>>
                    ELSE <<>>)]

ActiveAlerts(id) ==
  {a \in alertTable : a.entity_type = "product" /\ a.entity_id = id
                      /\ a.alert_type = "stock_low" /\ a.isactive}

\* what one run of the deduplication looked at, and whether its store calls resolved
Checked(via, issued) ==
  [via |-> via,
   products |-> UNION {issued[i].pos : i \in {k \in 1..Len(issued) : issued[k].op = "alertSelect"}},
   resolved |-> \A i \in 1..Len(issued) : issued[i].ok]

\* a handler calls generateStockAlert for a stored product
StockAlert ==
  /\ UNCHANGED <<invocations, ledger>>
  /\ Len(history) < 2
  /\ \E product \in productTable :
       \E oc \in {o \in Outcomes(1, 0, 0, OkThrow) : o.alertLookup = "ok" /\ o.commit = "ok"} :
          LET out == generateStockAlert(product, alertTable, oc)
          IN /\ alertTable' = out.alerts
             /\ history' = Append(history, Checked("generateStockAlert", out.calls))
  /\ UNCHANGED <<productTable, materialTable, clientTable, request, response, results,
                 calls, routed, before>>

\* a products bulk upload, of which only the tables and the alert step are kept
UploadProducts ==
  /\ UNCHANGED <<invocations, ledger>>
  /\ Len(history) < 2
  /\ \E body \in BodiesUpTo(ProductRecords, MaxUpload) :
       \E oc \in ProductOutcomes(body, productTable) :
          LET out == handleBulkCreateProducts(body, productTable, alertTable, oc)
          IN /\ productTable' = out.table
             /\ alertTable' = out.alerts
             /\ history' = Append(history, Checked("upload", out.calls))
  /\ UNCHANGED <<materialTable, clientTable, request, response, results, calls, routed,
                 before>>

NextAlerts == StockAlert \/ UploadProducts

\* the product and alert tables of InitialTables
InitAlerts == Init /\ materialTable = {} /\ clientTable = {}

SpecAlerts == InitAlerts /\ [][NextAlerts]_vars

\* C7: after two deduplication runs in sequence that both looked at a product,
\* the product has at most one active stock_low alert, and exactly one when the
\* store calls of either run resolved.
SequentialAlertNonDuplication ==
  Len(history) = 2 =>
    \A id \in history[1].products \cap history[2].products :
       /\ Cardinality(ActiveAlerts(id)) <= 1
       /\ (history[1].resolved \/ history[2].resolved => Cardinality(ActiveAlerts(id)) = 1)

\* C7 witness: an upload and then generateStockAlert looked at the same product,
\* both resolved, and the product had no active alert before the first.
SequentialAlertWitness ==
  /\ Len(history) = 2
  /\ history[1].via = "upload" /\ history[2].via = "generateStockAlert"
  /\ history[1].resolved /\ history[2].resolved
  /\ \E id \in history[1].products \cap history[2].products :
       ExistingAlertProductIds(before.alerts, {id}) = {}


\* ------------------------------------------------ alerts of one bulk upload
\* the product had an active stock_low alert when the request arrived
HadActiveAlert(id) ==
  \E a \in before.alerts : /\ a.entity_type = "product" /\ a.entity_id = id
                           /\ a.alert_type = "stock_low" /\ a.isactive

\* the alert rows written by the request
NewAlerts == alertTable \ before.alerts

NewAlertsOf(id) == {a \in NewAlerts : a.entity_id = id}

\* the transaction committed and no call of the alert step failed
AlertStepResolved ==
  /\ \E i \in 1..Len(calls) : calls[i].op = "commit" /\ calls[i].ok
  /\ ~AlertStepThrew

\* surviving records with current_stock <= minimum_stock
LowStockSurviving ==
  {i \in Surviving : request.body[i + 1].current_stock <= request.body[i + 1].minimum_stock}

\* C11: one products upload writes at most one stock_low alert per product id and
\* none for a product with an active stock_low alert at lookup time; when the
\* alert step and the commit resolve, every low-stock product of the batch that
\* had no active alert gets exactly one.
SingleUploadAlertDedup ==
  (Answered /\ request.endpoint = "products") =>
     /\ \A a \in NewAlerts : a.alert_type = "stock_low" /\ a.entity_type = "product" /\ a.isactive
     /\ \A id \in {a.entity_id : a \in NewAlerts} :
          /\ Cardinality(NewAlertsOf(id)) = 1
          /\ ~HadActiveAlert(id)
     /\ (AlertStepResolved =>
           \A i \in LowStockSurviving :
              LET id == ExistingProductId(productTable, request.body[i + 1].sku)
              IN /\ id # NoId
                 /\ Cardinality(NewAlertsOf(id)) =
                      (IF HadActiveAlert(id) THEN 0 ELSE 1))

\* C11 witness: an upload of two low-stock products, one with an active alert
\* and one without, committed; only the second got an alert.
SingleUploadAlertWitness ==
  /\ Answered /\ request.endpoint = "products" /\ AlertStepResolved
  /\ Cardinality(LowStockSurviving) = 2
  /\ \E i, j \in LowStockSurviving :
       /\ HadActiveAlert(ExistingProductId(productTable, request.body[i + 1].sku))
       /\ NewAlertsOf(ExistingProductId(productTable, request.body[j + 1].sku)) # {}


\* ------------------------------------------------------ schema validation
SomeRecordInvalid == \E i \in 1..Len(request.body) : ~request.body[i].valid

\* C12: when any record of the batch fails schema validation the request is
\* answered 400 and no store call is issued for any record of the batch.
WholeRequestValidation ==
  (Answered /\ SomeRecordInvalid) =>
     /\ response.status = 400
     /\ calls = <<>>
     /\ Tables = before


\* -------------------------------------------------------------- batch size
\* C13: a batch longer than the limit is answered 400 before any store call; a
\* batch of exactly the limit whose records are all valid is reconciled (its
\* existence lookup is issued and the response carries a BatchResult unless the
\* transaction of the materials endpoint rejects).
BatchSizeLimit ==
  Answered =>
     /\ (TooMany(request.body) =>
           response.status = 400 /\ ~response.hasData /\ calls = <<>> /\ Tables = before)
     /\ ((Len(request.body) = MaxRecords /\ ~SomeRecordInvalid) =>
           /\ \E k \in 1..Len(calls) : calls[k].op = "select"
           /\ (response.hasData => response.total = MaxRecords))

\* C13 witness: an oversized batch of valid records was answered.
BatchSizeLimitWitness ==
  /\ Answered /\ Len(request.body) = MaxRecords + 1 /\ ~SomeRecordInvalid
  /\ response.status = 400


\* ----------------------------------------------------------- insert failure
\* the entries of the handler's failure list for the record at position j
FailuresOf(j) == {k \in 1..Len(results.failed) : results.failed[k].pos = j}

\* C14: when the batched insert throws, every member of the insert set is in the
\* failure list exactly once, with the insert error, and none is reported created.
InsertFailureReportedOnce ==
  (Answered /\ InsertThrew) =>
     \A j \in routed.toInsert :
        /\ Cardinality(FailuresOf(j)) = 1
        /\ \A k \in FailuresOf(j) : results.failed[k].error \in {"INSERT", "CREATE"}
        /\ \A k \in 1..Len(results.successful) : results.successful[k].pos # j


UpdateCallsOf(j) == {k \in 1..Len(calls) : calls[k].op = "update" /\ calls[k].pos = {j}}

ReportedUpdated(j) == \E k \in 1..Len(results.updated) : results.updated[k].pos = j

\* C15: when the batched insert throws and the update set is not empty, the
\* update of every update-set record is still issued, and the record is reported
\* updated or failed by the result of its own update.
InsertFailureKeepsUpdates ==
  (Answered /\ InsertThrew) =>
     \A j \in routed.toUpdate :
        /\ Cardinality(UpdateCallsOf(j)) = 1
        /\ \A k \in UpdateCallsOf(j) :
             /\ (calls[k].ok => ReportedUpdated(j) /\ FailuresOf(j) = {})
             /\ (ReportedUpdated(j) <=> FailuresOf(j) = {})


\* ---------------------------------------------------------- update isolation
\* the update calls of the request, in the order they were issued
UpdateCalls == SelectSeq(calls, LAMBDA c : c.op = "update")

\* the insert, the alert step and the commit resolved
OnlyUpdatesFailed ==
  /\ Answered /\ SelectResolved /\ ~InsertThrew /\ ~AlertStepThrew /\ ~CommitThrew

TimesUpdated(j) ==
  Cardinality({k \in 1..Len(results.updated) : results.updated[k].pos = j})

\* C16: whatever subset of the concurrent updates throws and in whatever order
\* they settle, one update is issued per update-set record, a record whose
\* update threw is reported failed once and not updated, a record whose update
\* wrote its row is reported updated once and not failed, and every update-set
\* record is reported exactly once.
UpdateIsolation ==
  OnlyUpdatesFailed =>
     /\ Len(UpdateCalls) = Cardinality(routed.toUpdate)
     /\ {UpdateCalls[u].pos : u \in 1..Len(UpdateCalls)} = {{j} : j \in routed.toUpdate}
     /\ \A u \in 1..Len(UpdateCalls) :
          \A j \in UpdateCalls[u].pos :
             /\ TimesUpdated(j) + Cardinality(FailuresOf(j)) = 1
             /\ (request.oc.update[u] = "throw" => Cardinality(FailuresOf(j)) = 1)
             /\ (request.oc.update[u] = "ok" => TimesUpdated(j) = 1)

\* C16 witness: of two concurrent updates the one issued first threw, the other
\* wrote its row, and they settled in the reverse order.
UpdateIsolationWitness ==
  /\ OnlyUpdatesFailed
  /\ Len(UpdateCalls) = 2
  /\ request.oc.update = <<"throw", "ok">>
  /\ request.oc.order = <<2, 1>>


\* ------------------------------------------------------------ lookup failure
ErrorsOf(j) == {k \in 1..Len(response.errors) : response.errors[k].pos = j}

\* C17: when the existence lookup throws, every surviving candidate is in the
\* errors list of the response exactly once, with the SELECT error message.
LookupFailureMessages ==
  (Answered /\ SelectThrew) =>
     \A j \in Surviving :
        /\ Cardinality(ErrorsOf(j)) = 1
        /\ \A k \in ErrorsOf(j) : response.errors[k].error = "SELECT"


\* ------------------------------------------------------------- partitioning
\* the natural key of a store row of the endpoint of the request
RowKey(r) ==
  IF request.endpoint = "products" THEN r.sku
  ELSE IF request.endpoint = "materials" THEN r.material_code
  ELSE r.ruc_cedula

KeyStored(j) == \E r \in EntityRows(before) : RowKey(r) = KeyOf(request.body[j + 1])

\* C18: once the lookup has resolved, a surviving candidate is in the update set
\* exactly when a store row has its natural key, and in the insert set otherwise.
PartitionByNaturalKey ==
  (Accepted /\ SelectResolved) =>
     \A j \in Surviving :
        /\ (j \in routed.toUpdate <=> KeyStored(j))
        /\ (j \in routed.toInsert <=> ~KeyStored(j))


\* ------------------------------------------------- concurrent alert checks
\* Two invocations of the low-stock check-then-insert run concurrently for one
\* product.  Each suspends at its store calls: the lookup of an active alert,
\* the insert and, inside the upload's transaction, the commit that makes the
\* inserted row visible.  generateStockAlert writes on the shared connection,
\* so its row is visible as soon as the insert resolves.
NumInvocations == 2

Vias == {"generateStockAlert", "upload"}

\* the lookup that never finds an alert
SeesNoAlert(alerts, id) == FALSE

\* select ... where entity_type = 'product' and entity_id = id
\*   and alert_type = 'stock_low' and isactive
SeesActiveAlert(alerts, id) == ExistingAlertProductIds(alerts, {id}) # {}

Invocation(via, product) ==
  [via |-> via, product |-> product, pc |-> "lookup", seen |-> "pending", pending |-> {}]

\* the identity the store generates for a new alert row
NextAlertId ==
  MaxOf({a.idalert : a \in alertTable}
        \cup UNION {{a.idalert : a \in invocations[q].pending} : q \in 1..Len(invocations)}) + 1

InitRace ==
  /\ Init
  /\ productTable # {}
  /\ history = <<>>

\* the handlers start their checks for the same stored product
StartRace ==
  /\ invocations = <<>>
  /\ request = NoRequest
  /\ \E product \in productTable :
       \E via \in [1..NumInvocations -> Vias] :
          invocations' = [p \in 1..NumInvocations |-> Invocation(via[p], product.idfinal_product)]
  /\ UNCHANGED <<productTable, alertTable, materialTable, clientTable, request, response,
                 results, calls, routed, before, history, ledger>>

\* the lookup of invocation p resolves (or throws, which ends the check)
RaceLookup(p) ==
  /\ invocations[p].pc = "lookup"
  /\ \E outcome \in OkThrow :
       LET found == SeesActiveAlert(alertTable, invocations[p].product)
       IN invocations' =
            [invocations EXCEPT ![p].seen = IF outcome = "throw" THEN "error"
                                             ELSE IF found THEN "active" ELSE "none",
                                ![p].pc = IF outcome = "ok" /\ ~found THEN "insert" ELSE "done"]
  /\ UNCHANGED <<productTable, alertTable, materialTable, clientTable, request, response,
                 results, calls, routed, before, history, ledger>>

\* the insert of invocation p resolves or throws; both handlers swallow the error
RaceInsert(p) ==
  /\ invocations[p].pc = "insert"
  /\ \E outcome \in OkThrow :
       LET row == AlertRow(NextAlertId, invocations[p].product)
           upload == invocations[p].via = "upload"
       IN /\ alertTable' = IF outcome = "ok" /\ ~upload THEN alertTable \cup {row} ELSE alertTable
          /\ invocations' =
               [invocations EXCEPT ![p].pending = IF outcome = "ok" /\ upload THEN {row} ELSE {},
                                   ![p].pc = IF upload THEN "commit" ELSE "done"]
  /\ UNCHANGED <<productTable, materialTable, clientTable, request, response,
                 results, calls, routed, before, history, ledger>>

\* the transaction of an upload commits, or rejects and rolls back
RaceCommit(p) ==
  /\ invocations[p].pc = "commit"
  /\ \E outcome \in OkThrow :
       /\ alertTable' = IF outcome = "ok" THEN alertTable \cup invocations[p].pending
                        ELSE alertTable
       /\ invocations' = [invocations EXCEPT ![p].pending = {}, ![p].pc = "done"]
  /\ UNCHANGED <<productTable, materialTable, clientTable, request, response,
                 results, calls, routed, before, history, ledger>>

LookupStep == \E p \in 1..Len(invocations) : RaceLookup(p)

InsertStep == \E p \in 1..Len(invocations) : RaceInsert(p)

CommitStep == \E p \in 1..Len(invocations) : RaceCommit(p)

NextRace == StartRace \/ LookupStep \/ InsertStep \/ CommitStep

SpecRace == InitRace /\ [][NextRace]_vars

\* C19: two concurrent checks for one product that had no active stock_low
\* alert can both see none and both insert: a state with two active alerts of
\* the product is reachable (the witness), and several active alerts arise only
\* so: the product had none, and as many checks as it now has active alerts saw
\* none at their lookup and went on to insert.
ConcurrentAlertRace ==
  \A p \in 1..Len(invocations) :
     Cardinality(ActiveAlerts(invocations[p].product)) >= 2 =>
        /\ ~HadActiveAlert(invocations[p].product)
        /\ Cardinality({q \in 1..Len(invocations) :
                          invocations[q].seen = "none" /\ invocations[q].pc = "done"})
             >= Cardinality(ActiveAlerts(invocations[p].product))

\* C19 witness: both checks are done and the product, which had no active
\* alert, has two.
ConcurrentAlertRaceWitness ==
  /\ Len(invocations) = NumInvocations
  /\ \A p \in 1..Len(invocations) : invocations[p].pc = "done"
  /\ ~HadActiveAlert(invocations[1].product)
  /\ Cardinality(ActiveAlerts(invocations[1].product)) = 2


\* -------------------------------------------------------- identity back-fill
InsertResolved == \E k \in 1..Len(calls) : calls[k].op = "insert" /\ calls[k].ok

\* the alert calls of the request carry identities only
AlertCallsHaveIds ==
  \A k \in 1..Len(calls) :
     calls[k].op \in {"alertSelect", "alertInsert"} => NoId \notin calls[k].pos

\* C20: in a products upload whose batched insert resolved, every inserted
\* low-stock product is handed to the alert step with its generated id, and once
\* the alert step and the commit resolve it has one stock_low alert with that
\* id; no alert call and no alert row ever carries an empty entity_id.
IdentityBackFill ==
  (Answered /\ request.endpoint = "products") =>
     /\ AlertCallsHaveIds
     /\ \A a \in NewAlerts : a.entity_id # NoId
     /\ (InsertResolved =>
           \A j \in routed.toInsert \cap LowStockSurviving :
              \E k \in 1..Len(results.successful) :
                 /\ results.successful[k].pos = j
                 /\ \E c \in 1..Len(calls) :
                      calls[c].op = "alertSelect" /\ results.successful[k].id \in calls[c].pos
                 /\ (AlertStepResolved =>
                       /\ \E r \in productTable :
                            /\ r.idfinal_product = results.successful[k].id
                            /\ r.sku = request.body[j + 1].sku
                       /\ Cardinality(NewAlertsOf(results.successful[k].id)) = 1))

\* C20 witness: a new low-stock product was inserted and, the transaction
\* committed, has the alert of its generated id.
IdentityBackFillWitness ==
  /\ Answered /\ request.endpoint = "products" /\ InsertResolved /\ AlertStepResolved
  /\ \E j \in routed.toInsert \cap LowStockSurviving :
       \E r \in productTable :
          r.sku = request.body[j + 1].sku /\ NewAlertsOf(r.idfinal_product) # {}


\* ---------------------------------------------------------- round trips
CallsOf(op) == {k \in 1..Len(calls) : calls[k].op = op}

\* C21: one bulk request issues at most one existence lookup and at most one
\* batched insert whatever the size of the batch, updates only for update-set
\* records and at most one each, and never issues again a call that failed.
BoundedRoundTrips ==
  Answered =>
     /\ Cardinality(CallsOf("select")) <= 1
     /\ Cardinality(CallsOf("insert")) <= 1
     /\ \A k \in CallsOf("update") : \E j \in routed.toUpdate : calls[k].pos = {j}
     /\ \A j \in routed.toUpdate : Cardinality(UpdateCallsOf(j)) <= 1
     /\ \A k, l \in 1..Len(calls) :
          (k < l /\ ~calls[k].ok) =>
             ~(calls[l].op = calls[k].op /\ calls[l].pos = calls[k].pos)

\* C21 witness: a batch of the largest size with several surviving records was
\* looked up once, its insert resolved and one of its updates threw.
BoundedRoundTripsWitness ==
  /\ Answered /\ Len(request.body) = MaxBatch
  /\ Cardinality(Surviving) >= 2
  /\ Cardinality(CallsOf("select")) = 1
  /\ \E k \in CallsOf("insert") : calls[k].ok
  /\ \E k \in CallsOf("update") : ~calls[k].ok


\* ------------------------------------------------------ outcome exclusivity
ReportedCreated(j) == \E k \in 1..Len(results.successful) : results.successful[k].pos = j

\* C22: in the products and clients endpoints no record is counted both among
\* created/updated and among failed in one response, and every surviving
\* record has an outcome, wherever the transaction fails.
OutcomeExclusivity ==
  (Answered /\ response.hasData /\ request.endpoint \in {"products", "clients"}) =>
     /\ \A j \in 0..(Len(request.body) - 1) :
          ~((ReportedCreated(j) \/ ReportedUpdated(j)) /\ FailuresOf(j) # {})
     /\ \A j \in Surviving :
          ReportedCreated(j) \/ ReportedUpdated(j) \/ FailuresOf(j) # {}


\* ------------------------------------------------------------- persistence
\* the store holds the row `id` with the values submitted at position j
StoredAs(id, j) ==
  IF request.endpoint = "products"
  THEN ProductRow(id, request.body[j + 1]) \in productTable
  ELSE ClientRow(id, request.body[j + 1]) \in clientTable

\* C23: in the products and clients endpoints every record reported created or
\* updated is in the store with the submitted values when the request is
\* answered; records of a transaction that rejected are not reported so.
ReportedImpliesPersisted ==
  (Answered /\ request.endpoint \in {"products", "clients"}) =>
     /\ \A k \in 1..Len(results.successful) :
          StoredAs(results.successful[k].id, results.successful[k].pos)
     /\ \A k \in 1..Len(results.updated) :
          StoredAs(results.updated[k].id, results.updated[k].pos)


\* --------------------------------------------------- alerts follow writes
\* the request reported the product `id` created or updated
WrittenIds ==
  {results.successful[k].id : k \in 1..Len(results.successful)}
  \cup {results.updated[k].id : k \in 1..Len(results.updated)}

\* C24: a products upload writes a stock_low alert only for a product whose
\* insert or update in the same upload succeeded; a product whose update threw
\* or updated no row gets none.
AlertsFollowWrites ==
  (Answered /\ request.endpoint = "products") =>
     \A a \in NewAlerts : a.entity_id \in WrittenIds


\* ---------------------------------------------------- client update targets
\* the store row that the candidate at position j is routed to update
UpdateTarget(j) ==
  ExistingClientId(PlanClients(request.body, before.clients).existing, request.body[j + 1])

\* the clients table had the concurrent updates settled in the order of issue
ClientsInIssueOrder ==
  handleBulkCreateClients(
    request.body, before.clients,
    [request.oc EXCEPT !.order = Identity(Len(request.oc.order))]).table

\* C25: in the clients endpoint no two surviving candidates of a batch are
\* routed to update the same store row, and the clients table after the batch
\* does not depend on the order in which the concurrent updates settle.
ClientUpdateTargetsDisjoint ==
  (Answered /\ request.endpoint = "clients" /\ SelectResolved) =>
     /\ \A i, j \in routed.toUpdate : i # j => UpdateTarget(i) # UpdateTarget(j)
     /\ clientTable = ClientsInIssueOrder


\* ------------------------------------------------ concurrent stock operations
\* handleStockOperation reads the product, computes the new stock from the
\* value it read, writes it, records the transaction and, when the new stock is
\* at or below the minimum, calls generateStockAlert.  Each awaited store call
\* is a step; NumInvocations requests for one product interleave at them.
Quantities == {5}

\* the bodies that stockOperationSchema accepts
StockOperations == [operation_type : {"in", "out"}, quantity : Quantities]

StockInvocation(product, op) ==
  [via |-> "stockOperation", product |-> product, operation_type |-> op.operation_type,
   quantity |-> op.quantity, pc |-> "read", newStock |-> 0, low |-> FALSE,
   applied |-> FALSE, status |-> 0]

\* let newStock = current_stock; in: += quantity; out: -= quantity
NewStock(current, op_type, quantity) ==
  IF op_type = "in" THEN current + quantity ELSE current - quantity

InitStock ==
  /\ Init
  /\ productTable # {}

\* the requests arrive, all for one stored product
StartStock ==
  /\ invocations = <<>>
  /\ request = NoRequest
  /\ \E product \in productTable :
       \E ops \in [1..NumInvocations -> StockOperations] :
          invocations' =
            [p \in 1..NumInvocations |-> StockInvocation(product.idfinal_product, ops[p])]
  /\ UNCHANGED <<productTable, alertTable, materialTable, clientTable, request, response,
                 results, calls, routed, before, history, ledger>>

\* select * from tb_mae_final_product where idfinal_product = id: the read
\* resolves or throws (500); an 'out' beyond the stock read is answered 400
StockRead(p) ==
  /\ invocations[p].pc = "read"
  /\ \E outcome \in OkThrow :
       LET inv == invocations[p]
           product == CHOOSE r \in productTable : r.idfinal_product = inv.product
           newStock == NewStock(product.current_stock, inv.operation_type, inv.quantity)
       IN invocations' =
            [invocations EXCEPT
               ![p] = IF outcome = "throw" THEN [inv EXCEPT !.pc = "done", !.status = 500]
                      ELSE IF newStock < 0 THEN [inv EXCEPT !.pc = "done", !.status = 400]
                      ELSE [inv EXCEPT !.pc = "update", !.newStock = newStock,
                                       !.low = (newStock <= product.minimum_stock)]]
  /\ UNCHANGED <<productTable, alertTable, materialTable, clientTable, request, response,
                 results, calls, routed, before, history, ledger>>

\* db.update(table, id, {current_stock: newStock}): the value computed from the
\* earlier read is written
StockUpdate(p) ==
  /\ invocations[p].pc = "update"
  /\ \E outcome \in OkThrow :
       LET inv == invocations[p]
       IN /\ productTable' =
               IF outcome = "ok"
               THEN {IF r.idfinal_product = inv.product
                     THEN [r EXCEPT !.current_stock = inv.newStock] ELSE r : r \in productTable}
               ELSE productTable
          /\ invocations' =
               [invocations EXCEPT
                  ![p] = IF outcome = "ok" THEN [inv EXCEPT !.pc = "ledger", !.applied = TRUE]
                         ELSE [inv EXCEPT !.pc = "done", !.status = 500]]
  /\ UNCHANGED <<alertTable, materialTable, clientTable, request, response,
                 results, calls, routed, before, history, ledger>>

\* db.create('nubestock.tb_ope_transaction', transactionData)
StockLedger(p) ==
  /\ invocations[p].pc = "ledger"
  /\ \E outcome \in OkThrow :
       LET inv == invocations[p]
           row == [idtransaction |-> MaxOf({t.idtransaction : t \in ledger}) + 1,
                   idfinal_product |-> inv.product,
                   transaction_type |-> IF inv.operation_type = "in" THEN "stock_in"
                                        ELSE "stock_out",
                   quantity |-> inv.quantity, by |-> p]
       IN /\ ledger' = IF outcome = "ok" THEN ledger \cup {row} ELSE ledger
          /\ invocations' =
               [invocations EXCEPT
                  ![p] = IF outcome = "throw" THEN [inv EXCEPT !.pc = "done", !.status = 500]
                         ELSE IF inv.low THEN [inv EXCEPT !.pc = "alertLookup"]
                         ELSE [inv EXCEPT !.pc = "done", !.status = 200]]
  /\ UNCHANGED <<productTable, alertTable, materialTable, clientTable, request, response,
                 results, calls, routed, before, history>>

\* generateStockAlert, first await: an error is caught inside and the request
\* is answered 200
StockAlertLookup(p) ==
  /\ invocations[p].pc = "alertLookup"
  /\ \E outcome \in OkThrow :
       LET inv == invocations[p]
           found == SeesActiveAlert(alertTable, inv.product)
       IN invocations' =
            [invocations EXCEPT
               ![p] = IF outcome = "ok" /\ ~found THEN [inv EXCEPT !.pc = "alertInsert"]
                      ELSE [inv EXCEPT !.pc = "done", !.status = 200]]
  /\ UNCHANGED <<productTable, alertTable, materialTable, clientTable, request, response,
                 results, calls, routed, before, history, ledger>>

\* generateStockAlert, second await
StockAlertInsert(p) ==
  /\ invocations[p].pc = "alertInsert"
  /\ \E outcome \in OkThrow :
       /\ alertTable' =
            IF outcome = "ok"
            THEN alertTable \cup {AlertRow(MaxOf({a.idalert : a \in alertTable}) + 1,
                                           invocations[p].product)}
            ELSE alertTable
       /\ invocations' = [invocations EXCEPT ![p].pc = "done", ![p].status = 200]
  /\ UNCHANGED <<productTable, materialTable, clientTable, request, response,
                 results, calls, routed, before, history, ledger>>

StockReadStep == \E p \in 1..Len(invocations) : StockRead(p)

StockUpdateStep == \E p \in 1..Len(invocations) : StockUpdate(p)

StockLedgerStep == \E p \in 1..Len(invocations) : StockLedger(p)

StockAlertLookupStep == \E p \in 1..Len(invocations) : StockAlertLookup(p)

StockAlertInsertStep == \E p \in 1..Len(invocations) : StockAlertInsert(p)

NextStock ==
  \/ StartStock \/ StockReadStep \/ StockUpdateStep \/ StockLedgerStep
  \/ StockAlertLookupStep \/ StockAlertInsertStep

SpecStock == InitStock /\ [][NextStock]_vars

\* the signed quantity of the operations 1..n whose stock write resolved
RECURSIVE AppliedQuantity(_)
AppliedQuantity(n) ==
  IF n = 0 THEN 0
  ELSE AppliedQuantity(n - 1)
       + (IF ~invocations[n].applied THEN 0
          ELSE IF invocations[n].operation_type = "in" THEN invocations[n].quantity
          ELSE 0 - invocations[n].quantity)

StockOf(table, id) == (CHOOSE r \in table : r.idfinal_product = id).current_stock

AllOperationsDone ==
  /\ invocations # <<>>
  /\ \A p \in 1..Len(invocations) : invocations[p].pc = "done"

\* C26: under every interleaving of concurrent stock operations on a product,
\* the stock is never negative, an 'out' rejected for insufficient stock leaves
\* no ledger row, and when all operations are done the stock is the initial
\* stock plus the 'in' quantities and minus the 'out' quantities of the
\* operations whose stock write went through.
StockLostUpdateFreedom ==
  /\ \A r \in productTable : r.current_stock >= 0
  /\ \A p \in 1..Len(invocations) :
       invocations[p].status = 400 => \A t \in ledger : t.by # p
  /\ (AllOperationsDone =>
        StockOf(productTable, invocations[1].product)
          = StockOf(before.products, invocations[1].product)
            + AppliedQuantity(Len(invocations)))


\* ------------------------------------------------------- alert life cycle
\* The alert endpoints (acknowledge, resolve, dismiss, generic update), the
\* low-stock detection and the check-stock endpoint, one request at a time.
\* `history` keeps the last request only and `before` the tables it found.
MaxAlerts == 3

AlertStatuses == {"active", "acknowledged", "resolved", "dismissed"}

\* a request body without a status member
NoStatus == "none"

LowA == [idfinal_product |-> 1, sku |-> "A", current_stock |-> 0, minimum_stock |-> 1]
LowB == [idfinal_product |-> 2, sku |-> "B", current_stock |-> 0, minimum_stock |-> 1]

\* update tb_mae_alert set <data> where id: only the members of `data` change
Patch(a, data) ==
  [a EXCEPT !.status = IF data.status = NoStatus THEN @ ELSE data.status,
            !.isactive = IF data.deactivate THEN FALSE ELSE @]

\* db.findById, 404 when there is no row, db.update(...), 500 when it returns
\* nothing; every error reaches the handler's catch (500)
UpdateAlertRow(alerts, id, data, oc) ==
  LET found == \E a \in alerts : a.idalert = id
      written == oc.lookup = "ok" /\ found /\ oc.update = "ok"
  IN [alerts |-> IF written
                 THEN {IF a.idalert = id THEN Patch(a, data) ELSE a : a \in alerts}
                 ELSE alerts,
      status |-> IF oc.lookup = "throw" THEN 500
                 ELSE IF ~found THEN 404
                 ELSE IF oc.update = "ok" THEN 200 ELSE 500]

handleAcknowledgeAlert(alerts, id, oc) ==
  UpdateAlertRow(alerts, id, [status |-> "acknowledged", deactivate |-> FALSE], oc)

handleResolveAlert(alerts, id, oc) ==
  UpdateAlertRow(alerts, id, [status |-> "resolved", deactivate |-> TRUE], oc)

handleDismissAlert(alerts, id, oc) ==
  UpdateAlertRow(alerts, id, [status |-> "dismissed", deactivate |-> TRUE], oc)

\* updateData.status = value.status; isactive = false only for resolved/dismissed
handleUpdateAlert(alerts, id, status, oc) ==
  UpdateAlertRow(alerts, id,
                 [status |-> status, deactivate |-> status \in {"resolved", "dismissed"}], oc)

\* the outcomes of findById and update; an update that is never reached has
\* the default outcome
AlertOutcomes ==
  {oc \in [lookup : OkThrow, update : UpdateOutcomes] :
     oc.lookup = "throw" => oc.update = "ok"}

\* the ids a caller can name: the stored alerts and one that does not exist
AlertIds == {a.idalert : a \in alertTable} \cup {NoId}

\* what the last request was and did
Op(via, products, resolved, generated) ==
  [via |-> via, products |-> products, resolved |-> resolved, generated |-> generated]

InitAlertLife ==
  /\ productTable \in {{LowA}, {LowA, LowB}, {LowA, StoredB}}
  /\ alertTable \in {{}, {AlertRow(1, 1)}, {ResolvedAlert}}
  /\ materialTable = {}
  /\ clientTable = {}
  /\ before = Tables
  /\ request = NoRequest
  /\ response = PlainResponse(0)
  /\ results = NoResults
  /\ calls = <<>>
  /\ routed = [toInsert |-> {}, toUpdate |-> {}]
  /\ history = <<>>
  /\ invocations = <<>>
  /\ ledger = {}

AlertRequest(via, out) ==
  /\ alertTable' = out.alerts
  /\ history' = <<Op(via, {}, out.status = 200, 0)>>
  /\ before' = Tables
  /\ UNCHANGED <<productTable, materialTable, clientTable, request, response, results,
                 calls, routed, invocations, ledger>>

\* PUT alerts/{id}/acknowledge
AcknowledgeAlert ==
  \E id \in AlertIds : \E oc \in AlertOutcomes :
     AlertRequest("acknowledge", handleAcknowledgeAlert(alertTable, id, oc))

\* PUT alerts/{id}/resolve
ResolveAlert ==
  \E id \in AlertIds : \E oc \in AlertOutcomes :
     AlertRequest("resolve", handleResolveAlert(alertTable, id, oc))

\* PUT alerts/{id}/dismiss
DismissAlert ==
  \E id \in AlertIds : \E oc \in AlertOutcomes :
     AlertRequest("dismiss", handleDismissAlert(alertTable, id, oc))

\* PUT alerts/{id} with a body that updateSchema accepts
UpdateAlert ==
  \E id \in AlertIds : \E status \in AlertStatuses \cup {NoStatus} : \E oc \in AlertOutcomes :
     AlertRequest("update", handleUpdateAlert(alertTable, id, status, oc))

LowStock(table) == {r \in table : r.current_stock <= r.minimum_stock}

\* a handler finds the stock of a product at or below its minimum and calls
\* generateStockAlert
DetectLowStock ==
  /\ Cardinality(alertTable) < MaxAlerts
  /\ \E product \in LowStock(productTable) :
       \E oc \in {o \in Outcomes(1, 0, 0, OkThrow) : o.alertLookup = "ok" /\ o.commit = "ok"} :
          LET out == generateStockAlert(product, alertTable, oc)
          IN /\ alertTable' = out.alerts
             /\ history' = <<Op("detect", {product.idfinal_product},
                                \A i \in 1..Len(out.calls) : out.calls[i].ok, 0)>>
  /\ before' = Tables
  /\ UNCHANGED <<productTable, materialTable, clientTable, request, response, results,
                 calls, routed, invocations, ledger>>

\* for (const product of lowStockProducts) { await generateStockAlert(product);
\* alertsGenerated++; }
RECURSIVE CheckStockLoop(_, _, _, _)
CheckStockLoop(products, alerts, ocs, generated) ==
  IF products = <<>> THEN [alerts |-> alerts, generated |-> generated]
  ELSE LET product == Head(products)
       IN CheckStockLoop(Tail(products),
                         generateStockAlert(product, alerts, ocs[product.idfinal_product]).alerts,
                         ocs, generated + 1)

\* the products in the order of the rows returned by the select
ProductRows(table) ==
  LET ids == SortedSeq({r.idfinal_product : r \in table})
  IN [k \in 1..Len(ids) |-> CHOOSE r \in table : r.idfinal_product = ids[k]]

handleCheckStockAlerts(products, alerts, select, ocs) ==
  IF select = "throw" THEN [alerts |-> alerts, status |-> 500, generated |-> 0]
  ELSE LET done == CheckStockLoop(ProductRows(LowStock(products)), alerts, ocs, 0)
       IN [alerts |-> done.alerts, status |-> 200, generated |-> done.generated]

\* POST products/check-stock
CheckStockAlerts ==
  /\ Cardinality(alertTable) + Cardinality(productTable) <= MaxAlerts
  /\ \E select \in OkThrow :
       \E ocs \in [{r.idfinal_product : r \in productTable} ->
                     {o \in Outcomes(1, 0, 0, OkThrow) : o.alertLookup = "ok" /\ o.commit = "ok"}] :
          LET out == handleCheckStockAlerts(productTable, alertTable, select, ocs)
          IN /\ alertTable' = out.alerts
             /\ history' = <<Op("checkStock",
                                {r.idfinal_product : r \in LowStock(productTable)},
                                out.status = 200, out.generated)>>
  /\ before' = Tables
  /\ UNCHANGED <<productTable, materialTable, clientTable, request, response, results,
                 calls, routed, invocations, ledger>>

NextAlertLife ==
  \/ AcknowledgeAlert \/ ResolveAlert \/ DismissAlert \/ UpdateAlert
  \/ DetectLowStock \/ CheckStockAlerts

SpecAlertLife == InitAlertLife /\ [][NextAlertLife]_vars

\* C27: after any sequence of acknowledge, resolve, dismiss and status-update
\* requests, an alert has isactive = false exactly when its status is
\* 'resolved' or 'dismissed'.
AlertStatusConsistency ==
  \A a \in alertTable : ~a.isactive <=> a.status \in {"resolved", "dismissed"}


LastOp == history[Len(history)]

\* the alerts the product had when the last request arrived, by status
AlertsBefore(id, statuses) ==
  {a \in before.alerts : /\ a.entity_type = "product" /\ a.entity_id = id
                         /\ a.alert_type = "stock_low" /\ a.status \in statuses}

Detected == history # <<>> /\ LastOp.via = "detect"

\* C28: a low-stock detection for a product that has a stock_low alert in status
\* 'active' or 'acknowledged' creates no alert; when all its alerts are resolved
\* or dismissed and the store calls resolve, it creates exactly one, active.
AlertRearming ==
  Detected =>
     \A id \in LastOp.products :
        /\ (AlertsBefore(id, {"active", "acknowledged"}) # {} => NewAlertsOf(id) = {})
        /\ ((/\ AlertsBefore(id, {"active", "acknowledged"}) = {}
             /\ AlertsBefore(id, {"resolved", "dismissed"}) # {}
             /\ LastOp.resolved) =>
               /\ Cardinality(NewAlertsOf(id)) = 1
               /\ \A a \in NewAlertsOf(id) : a.isactive /\ a.status = "active")

\* C29: the check-stock endpoint reports as alertsGenerated the number of
\* stock_low alert rows that the request inserted.
AlertsGeneratedIsInserted ==
  (history # <<>> /\ LastOp.via = "checkStock" /\ LastOp.resolved) =>
     LastOp.generated = Cardinality(NewAlerts)


\* ------------------------------------------------------ surviving candidates
\* C30: in the products and materials endpoints an accepted batch always has
\* surviving candidates, the first occurrence of every key among them, so the
\* existence lookup is issued for them and the branch answering 400 because
\* every record is a duplicate is never taken.
SurvivorsNeverEmpty ==
  (Accepted /\ request.endpoint \in {"products", "materials"}) =>
     /\ calls # <<>>
     /\ calls[1].op = "select"
     /\ calls[1].pos = Surviving
     /\ \A i \in 0..(Len(request.body) - 1) :
          \E j \in calls[1].pos :
             j <= i /\ KeyOf(request.body[j + 1]) = KeyOf(request.body[i + 1])
     /\ ~(response.status = 400 /\ response.hasData /\ ~SelectResolved /\ ~SelectThrew)

\* C30 witness: a batch of the largest size whose records all carry one key
\* was reconciled with its first record as the only survivor.
SurvivorsNeverEmptyWitness ==
  /\ Accepted /\ request.endpoint \in {"products", "materials"}
  /\ Len(request.body) = MaxBatch
  /\ \A i \in 1..Len(request.body) : KeyOf(request.body[i]) = KeyOf(request.body[1])
  /\ Surviving = {0}
  /\ SelectResolved

====
